---- MODULE Spec2Model ----
(***************************************************************************)
(* Disaster-recovery automation for an Aurora cluster.                     *)
(*                                                                         *)
(* Two scripts are modelled against one model of the remote control plane: *)
(*   scripts/dr_staging_db_restore.py   specification Spec                 *)
(*   scripts/dr_restore.py              specification SpecR                *)
(* A run starts at the script's __main__ block, after the module-level     *)
(* configuration has been read.  Strings that the code inspects (the       *)
(* confirmation token, resource ARNs) are sequences of characters.         *)
(***************************************************************************)
EXTENDS Integers, Sequences, FiniteSets, TLC

VARIABLES pc, exitCode, args, env, remote, remote0, history, procs, calls,
          response, snapshot_arn, target_az, attempts

vars == <<pc, exitCode, args, env, remote, remote0, history, procs, calls,
          response, snapshot_arn, target_az, attempts>>

(***************************************************************************)
(* Bounds                                                                  *)
(***************************************************************************)
\* longest listing a backup vault / snapshot query returns
MaxListing == 3
\* number of polls a waiter makes before it gives up
MaxAttempts == 2
\* number of runs whose outcome is recorded in the history
MaxRuns == 3

(***************************************************************************)
(* Strings and optional values                                             *)
(***************************************************************************)
None == [isset |-> FALSE]
Some(s) == [isset |-> TRUE, val |-> s]

\* os.getenv(name, default)
GetEnv(v, default) == IF v.isset THEN v.val ELSE default

\* Python truthiness of an optional string: None and "" are falsy
Truthy(v) == v.isset /\ v.val # <<>>

Whitespace == {" ", "\n"}

RECURSIVE LStrip(_)
LStrip(s) ==
    IF s = <<>> THEN s
    ELSE IF Head(s) \in Whitespace THEN LStrip(Tail(s)) ELSE s

RECURSIVE RStrip(_)
RStrip(s) ==
    IF s = <<>> THEN s
    ELSE IF s[Len(s)] \in Whitespace THEN RStrip(SubSeq(s, 1, Len(s) - 1)) ELSE s

\* str.strip()
Strip(s) == RStrip(LStrip(s))

UpperChar(c) ==
    CASE c = "y" -> "Y"
      [] c = "e" -> "E"
      [] c = "s" -> "S"
      [] c = "n" -> "N"
      [] c = "o" -> "O"
      [] OTHER -> c

\* str.upper()
Upper(s) == [i \in 1..Len(s) |-> UpperChar(s[i])]

\* Python's  sub in s  for strings
Contains(sub, s) ==
    \E i \in 0..(Len(s) - Len(sub)) : SubSeq(s, i + 1, i + Len(sub)) = sub

YES == <<"Y", "E", "S">>
NO == <<"N", "O">>

\* values CONFIRM_DESTROY takes in the process environment
ConfirmValues ==
    { None,
      Some(YES),
      Some(<<"y", "e", "s">>),
      Some(<<" ", "Y", "e", "s", "\n">>),
      Some(NO),
      Some(<<>>),
      Some(<<"Y", "E", "S", "S">>),
      Some(<<"Y", " ", "E", "S">>) }

(***************************************************************************)
(* Configuration                                                           *)
(***************************************************************************)
DB_CLUSTER_IDENTIFIER == <<"d", "r">>

AzChoices == {"primary-az", "secondary-az", "tertiary-az"}

\* values of AZ_PRIMARY, AZ_SECONDARY, AZ_TERTIARY in the environment
\* and of CONFIRM_DESTROY (drawn from confirms)
Envs(confirms) ==
    { [AZ_PRIMARY |-> Some(<<"zone-a">>), AZ_SECONDARY |-> s, AZ_TERTIARY |-> t,
       CONFIRM_DESTROY |-> c] :
        s \in {Some(<<"zone-b">>), None}, t \in {Some(<<"zone-c">>), Some(<<>>)},
        c \in confirms }

\* az_map.get(az_choice)
az_map(e, az_choice) ==
    CASE az_choice = "primary-az" -> e.AZ_PRIMARY
      [] az_choice = "secondary-az" -> e.AZ_SECONDARY
      [] az_choice = "tertiary-az" -> e.AZ_TERTIARY
      [] OTHER -> None

Args == [action : {"create", "destroy"}, az_choice : AzChoices,
         update_dns : {"true", "false"}]

(***************************************************************************)
(* Recovery points of the backup vault                                     *)
(***************************************************************************)
RecoveryPoints ==
    { [RecoveryPointArn |-> "rp-1", ResourceType |-> "Aurora",
       ResourceArn |-> <<"a", ":", "d", "r">>, CreationDate |-> 1],
      [RecoveryPointArn |-> "rp-2", ResourceType |-> "Aurora",
       ResourceArn |-> <<"a", ":", "d", "r">>, CreationDate |-> 2],
      [RecoveryPointArn |-> "rp-3", ResourceType |-> "Aurora",
       ResourceArn |-> <<"a", ":", "d", "b">>, CreationDate |-> 3],
      [RecoveryPointArn |-> "rp-4", ResourceType |-> "RDS",
       ResourceArn |-> <<"a", ":", "d", "r">>, CreationDate |-> 4],
      [RecoveryPointArn |-> "rp-5", ResourceType |-> "Aurora",
       ResourceArn |-> <<"a", ":", "d", "r", "2">>, CreationDate |-> 2] }

\* the listings a query can return: sequences without repetition
Listings(universe) ==
    UNION { { s \in [1..n -> universe] : \A i, j \in 1..n : i # j => s[i] # s[j] } :
            n \in 0..MaxListing }

\* the filter of get_latest_backup_snapshot
IsClusterRecoveryPoint(rp) ==
    /\ rp.ResourceType = "Aurora"
    /\ Contains(DB_CLUSTER_IDENTIFIER, rp.ResourceArn)

FilterRecoveryPoints(resp) == SelectSeq(resp, IsClusterRecoveryPoint)

\* insert x in a sequence sorted by descending x[key], before the first
\* element whose key is not greater (x came first in the input)
RECURSIVE InsertDesc(_, _, _)
InsertDesc(x, s, key) ==
    IF s = <<>> THEN <<x>>
    ELSE IF Head(s)[key] <= x[key] THEN <<x>> \o s
         ELSE <<Head(s)>> \o InsertDesc(x, Tail(s), key)

\* sorted(s, key=lambda x: x[key], reverse=True): stable, equal keys keep
\* their order
RECURSIVE SortedDesc(_, _)
SortedDesc(s, key) ==
    IF s = <<>> THEN <<>> ELSE InsertDesc(Head(s), SortedDesc(Tail(s), key), key)

\* faulty variant: reverse=True forgotten, the oldest recovery point comes first
LatestArn_Ascending(recovery_points) ==
    SortedDesc(recovery_points, "CreationDate")[Len(recovery_points)].RecoveryPointArn

\* sorted(recovery_points, key=CreationDate, reverse=True)[0]["RecoveryPointArn"]
LatestArn(recovery_points) ==
    SortedDesc(recovery_points, "CreationDate")[1].RecoveryPointArn

(***************************************************************************)
(* Manual cluster snapshots (dr_restore.py)                                *)
(***************************************************************************)
SNAPSHOT_TAG_KEY == "dr"
SNAPSHOT_TAG_VALUE == "true"

Tag(k, v) == [Key |-> k, Value |-> v]

Snapshots ==
    { [DBClusterSnapshotIdentifier |-> "snap-1", SnapshotCreateTime |-> 1,
       TagList |-> <<Tag("dr", "true")>>],
      [DBClusterSnapshotIdentifier |-> "snap-2", SnapshotCreateTime |-> 2,
       TagList |-> <<Tag("owner", "ops"), Tag("dr", "true")>>],
      [DBClusterSnapshotIdentifier |-> "snap-3", SnapshotCreateTime |-> 3,
       TagList |-> <<Tag("dr", "false")>>],
      [DBClusterSnapshotIdentifier |-> "snap-4", SnapshotCreateTime |-> 4,
       TagList |-> <<>>] }

\* the filter of get_latest_snapshot
HasSnapshotTag(snap) ==
    \E i \in 1..Len(snap.TagList) :
       /\ snap.TagList[i].Key = SNAPSHOT_TAG_KEY
       /\ snap.TagList[i].Value = SNAPSHOT_TAG_VALUE

\* sorted(filtered, key=SnapshotCreateTime, reverse=True)[0][identifier]
LatestSnapshotId(filtered) ==
    SortedDesc(filtered, "SnapshotCreateTime")[1].DBClusterSnapshotIdentifier

NoArn == "none"

(***************************************************************************)
(* The remote control plane (RDS, Route 53), as the scripts use it         *)
(***************************************************************************)
Statuses == {"absent", "creating", "available", "deleting"}

\* a result of a remote call together with the remote state it leaves
Outcome(res, r) == [res |-> res, remote |-> r]

\* every remote call can be rejected or fail in transit
Failed(r) == {Outcome("error", r)}

\* rds.describe_db_clusters(DBClusterIdentifier=...)
DescribeClusterOutcomes(r) ==
    Failed(r) \cup
    (IF r.cluster = "absent"
     THEN {Outcome("not_found", r), Outcome("empty", r)}
     ELSE {Outcome("found", r)})

\* backup.list_recovery_points_by_backup_vault / describe_db_cluster_snapshots
ListOutcomes(r) == Failed(r) \cup {Outcome("ok", r)}

\* rds.restore_db_cluster_from_snapshot: rejected when the identifier is taken
RestoreOutcomes(r) ==
    Failed(r) \cup
    (IF r.cluster = "absent"
     THEN {Outcome("ok", [r EXCEPT !.cluster = "creating"])}
     ELSE {})

\* rds.create_db_instance: needs the parent cluster and a free identifier
CreateInstanceOutcomes(r) ==
    Failed(r) \cup
    (IF r.instance = "absent" /\ r.cluster \in {"creating", "available"}
     THEN {Outcome("ok", [r EXCEPT !.instance = "creating"])}
     ELSE {})

\* rds.delete_db_instance
DeleteInstanceOutcomes(r) ==
    CASE r.instance = "absent" -> {Outcome("not_found", r)} \cup Failed(r)
      [] r.instance = "available" ->
            {Outcome("ok", [r EXCEPT !.instance = "deleting"])} \cup Failed(r)
      [] OTHER -> Failed(r)

\* rds.delete_db_cluster: rejected while the cluster still has an instance
DeleteClusterOutcomes(r) ==
    CASE r.cluster = "absent" -> {Outcome("not_found", r)} \cup Failed(r)
      [] r.cluster = "available" /\ r.instance = "absent" ->
            {Outcome("ok", [r EXCEPT !.cluster = "deleting"])} \cup Failed(r)
      [] OTHER -> Failed(r)

\* route53.change_resource_record_sets (UPSERT of the CNAME)
ChangeRecordOutcomes(r) ==
    Failed(r) \cup {Outcome("ok", [r EXCEPT !.dns = "dr-endpoint"])}

\* one poll of a db_*_available waiter
AvailablePoll(status) ==
    {"fail"} \cup
    (CASE status = "available" -> {"ok"}
       [] status = "creating" -> {"retry"}
       [] OTHER -> {})

\* one poll of a db_*_deleted waiter
DeletedPoll(status) ==
    {"fail"} \cup (IF status = "absent" THEN {"ok"} ELSE {"retry"})

\* the remote resources move on by themselves
RemoteProgress ==
    /\ \/ /\ remote.cluster = "creating"
          /\ remote' = [remote EXCEPT !.cluster = "available"]
       \/ /\ remote.instance = "creating" /\ remote.cluster = "available"
          /\ remote' = [remote EXCEPT !.instance = "available"]
       \/ /\ remote.instance = "deleting"
          /\ remote' = [remote EXCEPT !.instance = "absent"]
       \/ /\ remote.cluster = "deleting"
          /\ remote' = [remote EXCEPT !.cluster = "absent"]
    /\ UNCHANGED <<pc, exitCode, args, env, remote0, history, procs, calls, response,
                   snapshot_arn, target_az, attempts>>

(***************************************************************************)
(* Process state                                                           *)
(***************************************************************************)
NoExit == -1

\* an entry of the log of remote calls of the current run
Call(op, res, az) == [op |-> op, res |-> res, az |-> az]

Exit(code) == pc' = "exited" /\ exitCode' = code

Goto(next) ==
    CASE next = "exit0" -> Exit(0)
      [] next = "exit1" -> Exit(1)
      [] OTHER -> pc' = next /\ UNCHANGED exitCode

\* two invocations of dr_staging_db_restore.py that run at the same time
Procs == {1, 2}

\* an invocation that has not started; update_dns and target_az are what
\* the create branch reads of its arguments and environment
IdleProc ==
    [pc |-> "idle", exitCode |-> NoExit, update_dns |-> "false", target_az |-> None,
     calls |-> <<>>, snapshot_arn |-> NoArn, attempts |-> 0]

Init ==
    /\ pc = "idle"
    /\ exitCode = NoExit
    /\ args = [action |-> "create", az_choice |-> "primary-az", update_dns |-> "false"]
    /\ env = [AZ_PRIMARY |-> None, AZ_SECONDARY |-> None, AZ_TERTIARY |-> None,
              CONFIRM_DESTROY |-> None]
    /\ remote = [cluster |-> "absent", instance |-> "absent", dns |-> "old"]
    /\ remote0 = remote
    /\ history = <<>>
    /\ procs = [p \in Procs |-> IdleProc]
    /\ calls = <<>>
    /\ response = <<>>
    /\ snapshot_arn = NoArn
    /\ target_az = None
    /\ attempts = 0

(***************************************************************************)
(* scripts/dr_staging_db_restore.py                                        *)
(***************************************************************************)

\* a process is started with its arguments and environment.  The script
\* reads CONFIRM_DESTROY on the destroy path only.
Start ==
    /\ pc \in {"idle", "exited"}
    /\ \E a \in Args :
         /\ args' = a
         /\ env' \in Envs(IF a.action = "destroy" THEN ConfirmValues ELSE {None})
         /\ pc' = IF a.action = "create" THEN "check_existing_cluster"
                  ELSE "destroy_dr_cluster"
    /\ exitCode' = NoExit
    /\ remote0' = remote
    /\ UNCHANGED <<history, procs>>
    /\ calls' = <<>>
    /\ response' = <<>>
    /\ snapshot_arn' = NoArn
    /\ target_az' = None
    /\ attempts' = 0
    /\ UNCHANGED remote

\* faulty variant: the lookup result is ignored, the guard never reports a cluster
check_existing_cluster_NeverTrue(res) ==
    CASE res = "found" -> "False"
      [] res = "not_found" -> "False"
      [] res = "empty" -> "False"
      [] OTHER -> "exit"

\* faulty variant: any failed lookup counts as "no cluster"
check_existing_cluster_ErrorIsFalse(res) ==
    CASE res = "found" -> "True"
      [] OTHER -> "False"

\* what check_existing_cluster does with the result of the lookup
check_existing_cluster(res) ==
    CASE res = "found" -> "True"
      [] res = "not_found" -> "False"
      [] res = "empty" -> "False"
      [] OTHER -> "exit"

\* main, create branch: check_existing_cluster() and the short circuit
CheckExistingCluster ==
    /\ pc = "check_existing_cluster"
    /\ \E o \in DescribeClusterOutcomes(remote) :
         /\ calls' = Append(calls, Call("describe_db_clusters", o.res, None))
         /\ remote' = o.remote
         /\ LET ret == check_existing_cluster(o.res)
            IN  Goto(CASE ret = "True" -> "exit0"
                       [] ret = "False" -> "get_latest_backup_snapshot"
                       [] OTHER -> "exit1")
    /\ UNCHANGED <<args, env, remote0, history, procs, response, snapshot_arn, target_az, attempts>>

\* get_latest_backup_snapshot
GetLatestBackupSnapshot ==
    /\ pc = "get_latest_backup_snapshot"
    /\ \E o \in ListOutcomes(remote) :
         /\ remote' = o.remote
         /\ calls' = Append(calls,
                Call("list_recovery_points_by_backup_vault", o.res, None))
         /\ IF o.res # "ok"
            THEN Exit(1) /\ UNCHANGED <<response, snapshot_arn>>
            ELSE \E resp \in Listings(RecoveryPoints) :
                   /\ response' = resp
                   /\ LET recovery_points == FilterRecoveryPoints(resp)
                      IN  IF recovery_points = <<>>
                          THEN Exit(1) /\ UNCHANGED snapshot_arn
                          ELSE /\ snapshot_arn' = LatestArn(recovery_points)
                               /\ Goto("restore_db_cluster_from_snapshot")
    /\ UNCHANGED <<args, env, remote0, history, procs, target_az, attempts>>

\* restore_cluster_from_snapshot: the zone lookup and the restore call
RestoreDbCluster ==
    /\ pc = "restore_db_cluster_from_snapshot"
    /\ response' = <<>>
    /\ LET az == az_map(env, args.az_choice)
       IN  IF ~Truthy(az)
           THEN Exit(1) /\ UNCHANGED <<remote, calls, target_az>>
           ELSE /\ target_az' = az
                /\ \E o \in RestoreOutcomes(remote) :
                     /\ remote' = o.remote
                     /\ calls' = Append(calls,
                            Call("restore_db_cluster_from_snapshot", o.res, az))
                     /\ Goto(IF o.res = "ok" THEN "wait_db_cluster_available"
                             ELSE "exit1")
    /\ UNCHANGED <<args, env, remote0, history, procs, snapshot_arn, attempts>>

\* a waiter raises on a failure and when its polls are used up
WaiterResult(poll, n) ==
    CASE poll = "ok" -> "ok"
      [] poll = "fail" -> "err"
      [] poll = "retry" /\ n + 1 >= MaxAttempts -> "err"
      [] OTHER -> "again"

\* faulty variant: the poll counter wraps around instead of ending the wait
Wait_NoDeadline(name, polls, next, failed) ==
    \E p \in polls :
      IF p = "retry"
      THEN /\ attempts' = (attempts + 1) % MaxAttempts
           /\ UNCHANGED <<pc, exitCode, calls>>
      ELSE /\ attempts' = 0
           /\ calls' = Append(calls, Call(name, IF p = "ok" THEN "ok" ELSE "err", None))
           /\ Goto(IF p = "ok" THEN next ELSE failed)

\* one poll of a waiter: on "again" the process stays where it is
Wait(name, polls, next, failed) ==
    \E p \in polls :
      LET w == WaiterResult(p, attempts)
      IN  IF w = "again"
          THEN attempts' = attempts + 1 /\ UNCHANGED <<pc, exitCode, calls>>
          ELSE /\ attempts' = 0
               /\ calls' = Append(calls, Call(name, w, None))
               /\ Goto(IF w = "ok" THEN next ELSE failed)

\* faulty variant: a failed cluster wait is swallowed
AfterClusterWait_Swallow(ok) == "create_db_instance"

\* faulty variant: a failed cluster wait is compensated by deleting the
\* cluster
AfterClusterWait_Cleanup(ok) ==
    IF ok THEN "create_db_instance" ELSE "delete_db_cluster"

\* where restore_cluster_from_snapshot goes after the cluster wait
AfterClusterWait(ok) == IF ok THEN "create_db_instance" ELSE "exit1"

\* waiter db_cluster_available
WaitClusterAvailable ==
    /\ pc = "wait_db_cluster_available"
    /\ Wait("wait_db_cluster_available", AvailablePoll(remote.cluster),
            AfterClusterWait(TRUE), AfterClusterWait(FALSE))
    /\ UNCHANGED <<args, env, remote, remote0, history, procs, response, snapshot_arn, target_az>>

\* rds.create_db_instance: no zone is passed
CreateDbInstance ==
    /\ pc = "create_db_instance"
    /\ \E o \in CreateInstanceOutcomes(remote) :
         /\ remote' = o.remote
         /\ calls' = Append(calls, Call("create_db_instance", o.res, None))
         /\ Goto(IF o.res = "ok" THEN "wait_db_instance_available" ELSE "exit1")
    /\ UNCHANGED <<args, env, remote0, history, procs, response, snapshot_arn, target_az, attempts>>

\* faulty variant: the script does not wait for the instance
WaitInstanceAvailable_Skipped ==
    /\ pc = "wait_db_instance_available"
    /\ Goto("print_post_restore_info")
    /\ UNCHANGED <<args, env, remote, remote0, history, procs, calls, response,
                   snapshot_arn, target_az, attempts>>

\* waiter db_instance_available
WaitInstanceAvailable ==
    /\ pc = "wait_db_instance_available"
    /\ Wait("wait_db_instance_available", AvailablePoll(remote.instance),
            "print_post_restore_info", "exit1")
    /\ UNCHANGED <<args, env, remote, remote0, history, procs, response, snapshot_arn, target_az>>

\* faulty variant: the flag is not looked at
ShouldUpdateDns_Always(a) == TRUE

\* main: whether the DNS record is updated after the restore
ShouldUpdateDns(a) == a.update_dns = "true"

\* print_post_restore_info swallows a failed lookup; then back in main
PrintPostRestoreInfo ==
    /\ pc = "print_post_restore_info"
    /\ \E o \in DescribeClusterOutcomes(remote) :
         /\ remote' = o.remote
         /\ calls' = Append(calls, Call("describe_db_clusters", o.res, None))
    /\ Goto(IF ShouldUpdateDns(args) THEN "update_dns_record" ELSE "exit0")
    /\ UNCHANGED <<args, env, remote0, history, procs, response, snapshot_arn, target_az, attempts>>

\* faulty variant: a failed upsert is reported but the script goes on to
\* its final line
UpdateDnsRecord_ExitZero ==
    /\ pc = "update_dns_record"
    /\ \E d \in DescribeClusterOutcomes(remote) :
         IF d.res # "found"
         THEN /\ calls' = Append(calls, Call("describe_db_clusters", d.res, None))
              /\ remote' = d.remote
              /\ Exit(1)
         ELSE \E o \in ChangeRecordOutcomes(d.remote) :
                /\ calls' = calls \o
                      << Call("describe_db_clusters", d.res, None),
                         Call("change_resource_record_sets", o.res, None) >>
                /\ remote' = o.remote
                /\ Goto("exit0")
    /\ UNCHANGED <<args, env, remote0, history, procs, response, snapshot_arn, target_az, attempts>>

\* update_dns_record: resolve the endpoint, upsert the CNAME
UpdateDnsRecord ==
    /\ pc = "update_dns_record"
    /\ \E d \in DescribeClusterOutcomes(remote) :
         IF d.res # "found"
         THEN /\ calls' = Append(calls, Call("describe_db_clusters", d.res, None))
              /\ remote' = d.remote
              /\ Exit(1)
         ELSE \E o \in ChangeRecordOutcomes(d.remote) :
                /\ calls' = calls \o
                      << Call("describe_db_clusters", d.res, None),
                         Call("change_resource_record_sets", o.res, None) >>
                /\ remote' = o.remote
                /\ Goto(IF o.res = "ok" THEN "exit0" ELSE "exit1")
    /\ UNCHANGED <<args, env, remote0, history, procs, response, snapshot_arn, target_az, attempts>>

\* faulty variant: the gate aborts on the default token only
ConfirmationGiven_AbortOnNo(confirmation) == confirmation # NO

\* the gate of destroy_dr_cluster
ConfirmationGiven(confirmation) == confirmation = YES

\* destroy_dr_cluster: the confirmation gate
DestroyGate ==
    /\ pc = "destroy_dr_cluster"
    /\ LET confirmation == Upper(Strip(GetEnv(env.CONFIRM_DESTROY, NO)))
       IN  Goto(IF ~ConfirmationGiven(confirmation) THEN "exit0"
               ELSE "delete_db_instance")
    /\ UNCHANGED <<args, env, remote, remote0, history, procs, calls, response, snapshot_arn,
                   target_az, attempts>>

\* faulty variant: a failed instance delete is skipped over, the cluster
\* delete follows
DeleteDbInstance_Continue ==
    /\ pc = "delete_db_instance"
    /\ \E o \in DeleteInstanceOutcomes(remote) :
         /\ remote' = o.remote
         /\ calls' = Append(calls, Call("delete_db_instance", o.res, None))
         /\ Goto(IF o.res = "ok" THEN "wait_db_instance_deleted"
                 ELSE "delete_db_cluster")
    /\ UNCHANGED <<args, env, remote0, history, procs, response, snapshot_arn, target_az, attempts>>

\* rds.delete_db_instance: every exception ends the run
DeleteDbInstance ==
    /\ pc = "delete_db_instance"
    /\ \E o \in DeleteInstanceOutcomes(remote) :
         /\ remote' = o.remote
         /\ calls' = Append(calls, Call("delete_db_instance", o.res, None))
         /\ Goto(IF o.res = "ok" THEN "wait_db_instance_deleted" ELSE "exit1")
    /\ UNCHANGED <<args, env, remote0, history, procs, response, snapshot_arn, target_az, attempts>>

\* waiter db_instance_deleted
WaitInstanceDeleted ==
    /\ pc = "wait_db_instance_deleted"
    /\ Wait("wait_db_instance_deleted", DeletedPoll(remote.instance),
            "delete_db_cluster", "exit1")
    /\ UNCHANGED <<args, env, remote, remote0, history, procs, response, snapshot_arn, target_az>>

\* rds.delete_db_cluster
DeleteDbCluster ==
    /\ pc = "delete_db_cluster"
    /\ \E o \in DeleteClusterOutcomes(remote) :
         /\ remote' = o.remote
         /\ calls' = Append(calls, Call("delete_db_cluster", o.res, None))
         /\ Goto(IF o.res = "ok" THEN "wait_db_cluster_deleted" ELSE "exit1")
    /\ UNCHANGED <<args, env, remote0, history, procs, response, snapshot_arn, target_az, attempts>>

\* faulty variant: the script does not wait for the cluster to be gone
WaitClusterDeleted_Skipped ==
    /\ pc = "wait_db_cluster_deleted"
    /\ calls' = Append(calls, Call("wait_db_cluster_deleted", "ok", None))
    /\ Goto("exit0")
    /\ UNCHANGED <<args, env, remote, remote0, history, procs, response,
                   snapshot_arn, target_az, attempts>>

\* waiter db_cluster_deleted; then main prints the final line
WaitClusterDeleted ==
    /\ pc = "wait_db_cluster_deleted"
    /\ Wait("wait_db_cluster_deleted", DeletedPoll(remote.cluster),
            "exit0", "exit1")
    /\ UNCHANGED <<args, env, remote, remote0, history, procs, response, snapshot_arn, target_az>>

Next ==
    \/ Start
    \/ CheckExistingCluster
    \/ GetLatestBackupSnapshot
    \/ RestoreDbCluster
    \/ WaitClusterAvailable
    \/ CreateDbInstance
    \/ WaitInstanceAvailable
    \/ PrintPostRestoreInfo
    \/ UpdateDnsRecord
    \/ DestroyGate
    \/ DeleteDbInstance
    \/ WaitInstanceDeleted
    \/ DeleteDbCluster
    \/ WaitClusterDeleted
    \/ RemoteProgress

Spec == Init /\ [][Next]_vars

\* how the run that has just ended went: its action, its exit code and
\* whether the destroy confirmation was given
RunOutcome ==
    [action |-> args.action, exitCode |-> exitCode,
     confirmed |-> Upper(Strip(GetEnv(env.CONFIRM_DESTROY, NO))) = YES]

\* the operator starts one run after the other; the outcomes of the runs
\* that have ended are recorded, for the first MaxRuns runs
StartRecorded ==
    /\ pc \in {"idle", "exited"}
    /\ Len(history) + (IF pc = "idle" THEN 0 ELSE 1) < MaxRuns
    /\ history' = IF pc = "idle" THEN history ELSE Append(history, RunOutcome)
    /\ UNCHANGED procs
    /\ \E a \in Args :
         /\ args' = a
         /\ env' \in Envs(IF a.action = "destroy" THEN ConfirmValues ELSE {None})
         /\ pc' = IF a.action = "create" THEN "check_existing_cluster"
                  ELSE "destroy_dr_cluster"
    /\ exitCode' = NoExit
    /\ remote0' = remote
    /\ calls' = <<>>
    /\ response' = <<>>
    /\ snapshot_arn' = NoArn
    /\ target_az' = None
    /\ attempts' = 0
    /\ UNCHANGED remote

\* a step of the running script
RunStep ==
    \/ CheckExistingCluster
    \/ GetLatestBackupSnapshot
    \/ RestoreDbCluster
    \/ WaitClusterAvailable
    \/ CreateDbInstance
    \/ WaitInstanceAvailable
    \/ PrintPostRestoreInfo
    \/ UpdateDnsRecord
    \/ DestroyGate
    \/ DeleteDbInstance
    \/ WaitInstanceDeleted
    \/ DeleteDbCluster
    \/ WaitClusterDeleted

NextH == StartRecorded \/ RunStep \/ RemoteProgress

\* the first MaxRuns runs against a remote state that starts out empty
HistSpec == Init /\ [][NextH]_vars

\* every remote call returns and the interpreter goes on to the next
\* statement: a started script keeps taking steps.  Nothing is assumed
\* about the remote resources.
LiveSpec == Init /\ [][Next]_vars /\ WF_vars(RunStep)

(***************************************************************************)
(* Two create invocations of dr_staging_db_restore.py at the same time.    *)
(* The steps are those of the create branch above, taken by invocation p   *)
(* on its own program counter, arguments and call log; the remote state    *)
(* is shared and nothing serialises the two.                               *)
(***************************************************************************)
SingleRunVars ==
    <<pc, exitCode, args, env, remote0, history, calls, response,
      snapshot_arn, target_az, attempts>>

Landed(q, next) ==
    CASE next = "exit0" -> [q EXCEPT !.pc = "exited", !.exitCode = 0]
      [] next = "exit1" -> [q EXCEPT !.pc = "exited", !.exitCode = 1]
      [] OTHER -> [q EXCEPT !.pc = next]

Logged(q, call) == [q EXCEPT !.calls = Append(@, call)]

CStart(p) ==
    /\ procs[p].pc = "idle"
    /\ \E a \in {x \in Args : x.action = "create"}, e \in Envs({None}) :
         procs' = [procs EXCEPT ![p] =
                     [@ EXCEPT !.pc = "check_existing_cluster",
                               !.update_dns = a.update_dns,
                               !.target_az = az_map(e, a.az_choice)]]
    /\ UNCHANGED remote
    /\ UNCHANGED SingleRunVars

CCheckExistingCluster(p) ==
    /\ procs[p].pc = "check_existing_cluster"
    /\ \E o \in DescribeClusterOutcomes(remote) :
         /\ remote' = o.remote
         /\ LET ret == check_existing_cluster(o.res)
                q == Logged(procs[p], Call("describe_db_clusters", o.res, None))
            IN  procs' = [procs EXCEPT ![p] =
                   Landed(q, CASE ret = "True" -> "exit0"
                                [] ret = "False" -> "get_latest_backup_snapshot"
                                [] OTHER -> "exit1")]
    /\ UNCHANGED SingleRunVars

CGetLatestBackupSnapshot(p) ==
    /\ procs[p].pc = "get_latest_backup_snapshot"
    /\ \E o \in ListOutcomes(remote) :
         /\ remote' = o.remote
         /\ LET q == Logged(procs[p],
                        Call("list_recovery_points_by_backup_vault", o.res, None))
            IN  IF o.res # "ok"
                THEN procs' = [procs EXCEPT ![p] = Landed(q, "exit1")]
                ELSE \E resp \in Listings(RecoveryPoints) :
                       LET recovery_points == FilterRecoveryPoints(resp)
                       IN  IF recovery_points = <<>>
                           THEN procs' = [procs EXCEPT ![p] = Landed(q, "exit1")]
                           ELSE procs' = [procs EXCEPT ![p] =
                                  Landed([q EXCEPT !.snapshot_arn =
                                                     LatestArn(recovery_points)],
                                         "restore_db_cluster_from_snapshot")]
    /\ UNCHANGED SingleRunVars

CRestoreDbCluster(p) ==
    /\ procs[p].pc = "restore_db_cluster_from_snapshot"
    /\ LET az == procs[p].target_az
       IN  IF ~Truthy(az)
           THEN /\ procs' = [procs EXCEPT ![p] = Landed(@, "exit1")]
                /\ UNCHANGED remote
           ELSE \E o \in RestoreOutcomes(remote) :
                  /\ remote' = o.remote
                  /\ procs' = [procs EXCEPT ![p] =
                        Landed(Logged(@, Call("restore_db_cluster_from_snapshot",
                                              o.res, az)),
                               IF o.res = "ok" THEN "wait_db_cluster_available"
                               ELSE "exit1")]
    /\ UNCHANGED SingleRunVars

\* one poll of a waiter by invocation p
CWait(p, name, polls, next, failed) ==
    \E poll \in polls :
      LET w == WaiterResult(poll, procs[p].attempts)
      IN  IF w = "again"
          THEN procs' = [procs EXCEPT ![p].attempts = @ + 1]
          ELSE procs' = [procs EXCEPT ![p] =
                 Landed(Logged([@ EXCEPT !.attempts = 0], Call(name, w, None)),
                        IF w = "ok" THEN next ELSE failed)]

CWaitClusterAvailable(p) ==
    /\ procs[p].pc = "wait_db_cluster_available"
    /\ CWait(p, "wait_db_cluster_available", AvailablePoll(remote.cluster),
             AfterClusterWait(TRUE), AfterClusterWait(FALSE))
    /\ UNCHANGED remote
    /\ UNCHANGED SingleRunVars

CCreateDbInstance(p) ==
    /\ procs[p].pc = "create_db_instance"
    /\ \E o \in CreateInstanceOutcomes(remote) :
         /\ remote' = o.remote
         /\ procs' = [procs EXCEPT ![p] =
               Landed(Logged(@, Call("create_db_instance", o.res, None)),
                      IF o.res = "ok" THEN "wait_db_instance_available" ELSE "exit1")]
    /\ UNCHANGED SingleRunVars

CWaitInstanceAvailable(p) ==
    /\ procs[p].pc = "wait_db_instance_available"
    /\ CWait(p, "wait_db_instance_available", AvailablePoll(remote.instance),
             "print_post_restore_info", "exit1")
    /\ UNCHANGED remote
    /\ UNCHANGED SingleRunVars

CPrintPostRestoreInfo(p) ==
    /\ procs[p].pc = "print_post_restore_info"
    /\ \E o \in DescribeClusterOutcomes(remote) :
         /\ remote' = o.remote
         /\ procs' = [procs EXCEPT ![p] =
               Landed(Logged(@, Call("describe_db_clusters", o.res, None)),
                      IF ShouldUpdateDns([update_dns |-> procs[p].update_dns]) THEN "update_dns_record"
                      ELSE "exit0")]
    /\ UNCHANGED SingleRunVars

CUpdateDnsRecord(p) ==
    /\ procs[p].pc = "update_dns_record"
    /\ \E d \in DescribeClusterOutcomes(remote) :
         LET q == Logged(procs[p], Call("describe_db_clusters", d.res, None))
         IN  IF d.res # "found"
             THEN /\ remote' = d.remote
                  /\ procs' = [procs EXCEPT ![p] = Landed(q, "exit1")]
             ELSE \E o \in ChangeRecordOutcomes(d.remote) :
                    /\ remote' = o.remote
                    /\ procs' = [procs EXCEPT ![p] =
                          Landed(Logged(q, Call("change_resource_record_sets",
                                                o.res, None)),
                                 IF o.res = "ok" THEN "exit0" ELSE "exit1")]
    /\ UNCHANGED SingleRunVars

NextC ==
    \/ \E p \in Procs :
          \/ CStart(p)
          \/ CCheckExistingCluster(p)
          \/ CGetLatestBackupSnapshot(p)
          \/ CRestoreDbCluster(p)
          \/ CWaitClusterAvailable(p)
          \/ CCreateDbInstance(p)
          \/ CWaitInstanceAvailable(p)
          \/ CPrintPostRestoreInfo(p)
          \/ CUpdateDnsRecord(p)
    \/ RemoteProgress

ConcSpec == Init /\ [][NextC]_vars

(***************************************************************************)
(* scripts/dr_restore.py: an exception that is not caught ends the         *)
(* process with exit code 1                                                *)
(***************************************************************************)
RStart ==
    /\ pc \in {"idle", "exited"}
    /\ \E a \in Args :
         /\ args' = a
         /\ env' \in Envs(IF a.action = "destroy" THEN ConfirmValues ELSE {None})
         /\ pc' = IF a.action = "create" THEN "r_get_latest_snapshot"
                  ELSE "r_delete_db_instance"
    /\ exitCode' = NoExit
    /\ remote0' = remote
    /\ UNCHANGED <<history, procs>>
    /\ calls' = <<>>
    /\ response' = <<>>
    /\ snapshot_arn' = NoArn
    /\ target_az' = None
    /\ attempts' = 0
    /\ UNCHANGED remote

\* main after the action: the DNS update and the end of the script
RAfterAction(a) ==
    IF a.update_dns = "true" /\ a.action = "create" THEN "r_update_dns_record"
    ELSE "exit0"

\* create_dr_cluster: get_latest_snapshot
RGetLatestSnapshot ==
    /\ pc = "r_get_latest_snapshot"
    /\ \E o \in ListOutcomes(remote) :
         /\ remote' = o.remote
         /\ calls' = Append(calls, Call("describe_db_cluster_snapshots", o.res, None))
         /\ IF o.res # "ok"
            THEN Exit(1) /\ UNCHANGED <<response, snapshot_arn>>
            ELSE \E snapshots \in Listings(Snapshots) :
                   /\ response' = snapshots
                   /\ LET filtered == SelectSeq(snapshots, HasSnapshotTag)
                      IN  IF filtered = <<>>
                          THEN Exit(1) /\ UNCHANGED snapshot_arn
                          ELSE /\ snapshot_arn' = LatestSnapshotId(filtered)
                               /\ Goto("r_restore_db_cluster_from_snapshot")
    /\ UNCHANGED <<args, env, remote0, history, procs, target_az, attempts>>

\* create_dr_cluster: the restore call, issued without a zone
RRestoreDbCluster ==
    /\ pc = "r_restore_db_cluster_from_snapshot"
    /\ response' = <<>>
    /\ \E o \in RestoreOutcomes(remote) :
         /\ remote' = o.remote
         /\ calls' = Append(calls, Call("restore_db_cluster_from_snapshot", o.res, None))
         /\ Goto(IF o.res = "ok" THEN "r_create_db_instance" ELSE "exit1")
    /\ UNCHANGED <<args, env, remote0, history, procs, snapshot_arn, target_az, attempts>>

\* create_dr_cluster: the zone lookup, then the instance call
RCreateDbInstance ==
    /\ pc = "r_create_db_instance"
    /\ LET az == az_map(env, args.az_choice)
       IN  IF ~Truthy(az)
           THEN Exit(1) /\ UNCHANGED <<remote, calls, target_az>>
           ELSE /\ target_az' = az
                /\ \E o \in CreateInstanceOutcomes(remote) :
                     /\ remote' = o.remote
                     /\ calls' = Append(calls, Call("create_db_instance", o.res, az))
                     /\ Goto(IF o.res = "ok" THEN RAfterAction(args) ELSE "exit1")
    /\ UNCHANGED <<args, env, remote0, history, procs, response, snapshot_arn, attempts>>

\* delete_dr_cluster: the instance; a missing instance is skipped
RDeleteDbInstance ==
    /\ pc = "r_delete_db_instance"
    /\ \E o \in DeleteInstanceOutcomes(remote) :
         /\ remote' = o.remote
         /\ calls' = Append(calls, Call("delete_db_instance", o.res, None))
         /\ Goto(IF o.res \in {"ok", "not_found"} THEN "r_delete_db_cluster"
                 ELSE "exit1")
    /\ UNCHANGED <<args, env, remote0, history, procs, response, snapshot_arn, target_az, attempts>>

\* delete_dr_cluster: the cluster; a missing cluster is skipped
RDeleteDbCluster ==
    /\ pc = "r_delete_db_cluster"
    /\ \E o \in DeleteClusterOutcomes(remote) :
         /\ remote' = o.remote
         /\ calls' = Append(calls, Call("delete_db_cluster", o.res, None))
         /\ Goto(IF o.res \in {"ok", "not_found"} THEN RAfterAction(args)
                 ELSE "exit1")
    /\ UNCHANGED <<args, env, remote0, history, procs, response, snapshot_arn, target_az, attempts>>

\* update_dns_record: nothing is caught
RUpdateDnsRecord ==
    /\ pc = "r_update_dns_record"
    /\ \E d \in DescribeClusterOutcomes(remote) :
         IF d.res # "found"
         THEN /\ calls' = Append(calls, Call("describe_db_clusters", d.res, None))
              /\ remote' = d.remote
              /\ Exit(1)
         ELSE \E o \in ChangeRecordOutcomes(d.remote) :
                /\ calls' = calls \o
                      << Call("describe_db_clusters", d.res, None),
                         Call("change_resource_record_sets", o.res, None) >>
                /\ remote' = o.remote
                /\ Goto(IF o.res = "ok" THEN "exit0" ELSE "exit1")
    /\ UNCHANGED <<args, env, remote0, history, procs, response, snapshot_arn, target_az, attempts>>

NextR ==
    \/ RStart
    \/ RGetLatestSnapshot
    \/ RRestoreDbCluster
    \/ RCreateDbInstance
    \/ RDeleteDbInstance
    \/ RDeleteDbCluster
    \/ RUpdateDnsRecord
    \/ RemoteProgress

SpecR == Init /\ [][NextR]_vars

(***************************************************************************)
(* Properties                                                              *)
(***************************************************************************)
Issued(op) == \E i \in 1..Len(calls) : calls[i].op = op

Running == pc \notin {"idle"}

\* the confirmation token of the run, as the gate normalises it
NormalisedConfirmation == Upper(Strip(GetEnv(env.CONFIRM_DESTROY, NO)))

UnconfirmedDestroy ==
    Running /\ args.action = "destroy" /\ NormalisedConfirmation # YES

ConfirmedDestroy ==
    Running /\ args.action = "destroy" /\ NormalisedConfirmation = YES

\* C1: a destroy run of dr_staging_db_restore.py whose CONFIRM_DESTROY
\* (stripped, upper-cased, NO when unset) is not YES issues no
\* delete_db_instance and no delete_db_cluster, none of its steps changes
\* the remote cluster or instance, and its gate step exits with code 0.
C1_UnconfirmedDestroyIsNoOp ==
    /\ [](UnconfirmedDestroy =>
            /\ ~Issued("delete_db_instance")
            /\ ~Issued("delete_db_cluster")
            /\ pc = "exited" => exitCode = 0)
    /\ [][(UnconfirmedDestroy /\ pc # "exited" /\ pc' # pc) =>
            /\ remote' = remote
            /\ pc' = "exited" /\ exitCode' = 0]_vars

C1_Witness ==
    /\ pc = "exited" /\ exitCode = 0
    /\ args.action = "destroy"
    /\ env.CONFIRM_DESTROY = Some(<<"Y", " ", "E", "S">>)
    /\ calls = <<>>
    /\ remote.cluster = "available" /\ remote.instance = "available"

\* C2 (as claimed): a destroy run of dr_restore.py issues a delete call
\* only if a destroy confirmation was given in its environment.
C2_DeleteOnlyWhenConfirmed ==
    (Running /\ args.action = "destroy" /\ ~env.CONFIRM_DESTROY.isset) =>
        /\ ~Issued("delete_db_instance")
        /\ ~Issued("delete_db_cluster")

\* the create run's existence lookup has returned
LookupReturned(res) ==
    /\ Running /\ args.action = "create"
    /\ Len(calls) >= 1
    /\ calls[1].op = "describe_db_clusters" /\ calls[1].res = res

RestoreStageCalls ==
    {"list_recovery_points_by_backup_vault", "restore_db_cluster_from_snapshot",
     "create_db_instance", "change_resource_record_sets"}

\* C3 (as claimed): a create run started while the cluster exists ends with
\* exit code 0 and issues no list, restore, create-instance or DNS call.
C3_CreateOnExistingIsNoOp ==
    (Running /\ args.action = "create" /\ remote0.cluster # "absent") =>
        /\ pc = "exited" => exitCode = 0
        /\ \A i \in 1..Len(calls) : calls[i].op \notin RestoreStageCalls

\* C3 (amended): a create run whose existence lookup finds the cluster ends
\* at once with exit code 0, for either value of --update_dns, having
\* issued no call but the lookup, and the lookup step leaves the remote
\* state as it was.
C3_FoundClusterIsNoOp ==
    /\ [](LookupReturned("found") =>
            /\ pc = "exited" /\ exitCode = 0
            /\ Len(calls) = 1)
    /\ [][(pc = "check_existing_cluster" /\ pc' # pc) => remote' = remote]_vars

C3_Witness ==
    /\ LookupReturned("found")
    /\ pc = "exited" /\ exitCode = 0
    /\ args.update_dns = "true"
    /\ remote.cluster = "available" /\ remote.dns = "old"

\* call i of the run is op and returned res
CallIs(i, op, res) == calls[i].op = op /\ calls[i].res = res

\* C4: in a create run create_db_instance is issued only after the restore
\* call went through and the cluster-available wait returned; a failed or
\* timed out cluster wait ends the run with exit code 1 and neither
\* create_db_instance nor the DNS upsert is issued.
C4_InstanceOnlyAfterClusterAvailable ==
    (Running /\ args.action = "create") =>
        /\ \A i \in 1..Len(calls) :
              calls[i].op = "create_db_instance" =>
                \E j, k \in 1..(i - 1) :
                   /\ j < k
                   /\ CallIs(j, "restore_db_cluster_from_snapshot", "ok")
                   /\ CallIs(k, "wait_db_cluster_available", "ok")
        /\ (\E i \in 1..Len(calls) : CallIs(i, "wait_db_cluster_available", "err")) =>
              /\ pc = "exited" /\ exitCode = 1
              /\ ~Issued("create_db_instance")
              /\ ~Issued("change_resource_record_sets")

C4_Witness ==
    /\ args.action = "create" /\ args.update_dns = "true"
    /\ pc = "exited" /\ exitCode = 1
    /\ Len(calls) = 4
    /\ CallIs(4, "wait_db_cluster_available", "err")
    /\ remote.cluster = "creating" /\ remote.instance = "absent"

\* C5 (as claimed): a confirmed destroy run in which no call failed except
\* with "not found" ends with exit code 0.
C5_AbsentResourceIsSatisfied ==
    (ConfirmedDestroy /\ pc = "exited"
       /\ \A i \in 1..Len(calls) : calls[i].res \in {"ok", "not_found"}) =>
        exitCode = 0

\* C6 (as claimed): a create run of dr_restore.py whose zone choice
\* resolves to no zone never issues restore_db_cluster_from_snapshot and
\* ends non-zero.
C6_UnresolvedZoneFailsFirst ==
    (Running /\ args.action = "create" /\ ~Truthy(az_map(env, args.az_choice))) =>
        /\ ~Issued("restore_db_cluster_from_snapshot")
        /\ pc = "exited" => exitCode # 0

\* C7 (as claimed): in a create run the restore request and the
\* create-instance request both carry the configured zone of the choice.
C7_InstancePinnedToZone ==
    (Running /\ args.action = "create") =>
        \A i \in 1..Len(calls) :
           calls[i].op \in {"restore_db_cluster_from_snapshot", "create_db_instance"} =>
              calls[i].az = az_map(env, args.az_choice)

\* C8: the DNS upsert is issued only in a create run with --update_dns
\* true whose existence lookup found no cluster and in which, before the
\* upsert, the cluster wait and then the instance wait returned.
C8_DnsOnlyAfterRestore ==
    \A i \in 1..Len(calls) :
       calls[i].op = "change_resource_record_sets" =>
          /\ args.action = "create"
          /\ args.update_dns = "true"
          /\ calls[1].op = "describe_db_clusters"
          /\ calls[1].res \in {"not_found", "empty"}
          /\ \E j, k \in 1..(i - 1) :
                /\ j < k
                /\ CallIs(j, "wait_db_cluster_available", "ok")
                /\ CallIs(k, "wait_db_instance_available", "ok")

C8_Witness ==
    /\ pc = "exited" /\ exitCode = 0
    /\ Len(calls) = 9
    /\ CallIs(9, "change_resource_record_sets", "ok")
    /\ remote.dns = "dr-endpoint"

\* the vault listing has returned and get_latest_backup_snapshot is done
ListingReturned ==
    /\ Running /\ args.action = "create"
    /\ Len(calls) = 2
    /\ CallIs(2, "list_recovery_points_by_backup_vault", "ok")
    /\ \/ pc = "restore_db_cluster_from_snapshot"
       \/ pc = "exited" /\ snapshot_arn = NoArn

DistinctTimestamps(resp) ==
    \A i, j \in 1..Len(resp) : i # j => resp[i].CreationDate # resp[j].CreationDate

\* recovery point i of the listing is of type Aurora and refers to the cluster
PassesFilter(resp, i) ==
    /\ resp[i].ResourceType = "Aurora"
    /\ \E m \in 1..Len(resp[i].ResourceArn) :
          /\ m + Len(DB_CLUSTER_IDENTIFIER) - 1 <= Len(resp[i].ResourceArn)
          /\ \A n \in 1..Len(DB_CLUSTER_IDENTIFIER) :
                resp[i].ResourceArn[m + n - 1] = DB_CLUSTER_IDENTIFIER[n]

\* C9: when the listing has pairwise distinct timestamps,
\* get_latest_backup_snapshot returns the identifier of the recovery point
\* with the largest timestamp among those that pass the filter; when none
\* passes, the run ends with exit code 1 without a restore call.
C9_LatestRecoveryPoint ==
    ListingReturned =>
        IF \A i \in 1..Len(response) : ~PassesFilter(response, i)
        THEN pc = "exited" /\ exitCode = 1
             /\ ~Issued("restore_db_cluster_from_snapshot")
        ELSE /\ pc = "restore_db_cluster_from_snapshot"
             /\ DistinctTimestamps(response) =>
                   \E i \in 1..Len(response) :
                      /\ PassesFilter(response, i)
                      /\ snapshot_arn = response[i].RecoveryPointArn
                      /\ \A j \in 1..Len(response) :
                            (j # i /\ PassesFilter(response, j)) =>
                               response[j].CreationDate < response[i].CreationDate

C9_Witness ==
    /\ ListingReturned
    /\ Len(response) = 3
    /\ DistinctTimestamps(response)
    /\ response[1].RecoveryPointArn = "rp-1"
    /\ response[2].RecoveryPointArn = "rp-4"
    /\ response[3].RecoveryPointArn = "rp-2"
    /\ snapshot_arn = "rp-2"

\* C10: check_existing_cluster returns True when the lookup finds the
\* cluster (the run exits 0 at once), returns False when the lookup reports
\* no cluster (the run goes on to the vault listing), and on any other
\* lookup failure ends the run with exit code 1 before any further call.
C10_ExistenceGuard ==
    (Running /\ args.action = "create" /\ Len(calls) >= 1) =>
        /\ calls[1].op = "describe_db_clusters"
        /\ calls[1].res = "found" =>
              pc = "exited" /\ exitCode = 0 /\ Len(calls) = 1
        /\ calls[1].res \in {"not_found", "empty"} =>
              \/ pc = "get_latest_backup_snapshot" /\ Len(calls) = 1
              \/ Len(calls) >= 2 /\ calls[2].op = "list_recovery_points_by_backup_vault"
        /\ calls[1].res \notin {"found", "not_found", "empty"} =>
              pc = "exited" /\ exitCode = 1 /\ Len(calls) = 1

C10_Witness ==
    /\ Running /\ args.action = "create"
    /\ Len(calls) = 1 /\ CallIs(1, "describe_db_clusters", "error")
    /\ pc = "exited" /\ exitCode = 1
    /\ remote.cluster = "available"

\* call i of a run of dr_staging_db_restore.py is a stage that failed: the
\* existence lookup fails only on an error other than not-found, the
\* lookup of print_post_restore_info (call 7 of a create run) is
\* informational, every other call fails unless it went through
StageFailed(i) ==
    IF args.action = "create"
    THEN CASE i = 1 -> calls[i].res \notin {"found", "not_found", "empty"}
           [] i = 7 -> FALSE
           [] i = 8 -> calls[i].res # "found"
           [] OTHER -> calls[i].res # "ok"
    ELSE calls[i].res # "ok"

CreateStages ==
    << "describe_db_clusters", "list_recovery_points_by_backup_vault",
       "restore_db_cluster_from_snapshot", "wait_db_cluster_available",
       "create_db_instance", "wait_db_instance_available",
       "describe_db_clusters", "describe_db_clusters",
       "change_resource_record_sets" >>

DestroyStages ==
    << "delete_db_instance", "wait_db_instance_deleted",
       "delete_db_cluster", "wait_db_cluster_deleted" >>

\* the run went through every stage that was asked for
CompletedAllStages ==
    LET stages == IF args.action = "destroy" THEN DestroyStages
                  ELSE IF args.update_dns = "true" THEN CreateStages
                  ELSE SubSeq(CreateStages, 1, 7)
    IN  /\ args.action = "destroy" => NormalisedConfirmation = YES
        /\ Len(calls) = Len(stages)
        /\ \A i \in 1..Len(calls) : calls[i].op = stages[i] /\ ~StageFailed(i)

\* C11: a failed stage is the last call of its run and the run ends with
\* exit code 1; a run ends with exit code 0 only when every requested
\* stage completed, when create found the cluster and stopped, or when the
\* confirmation gate aborted destroy.
C11_FailureAbortsRun ==
    Running =>
        /\ \A i \in 1..Len(calls) :
              StageFailed(i) => i = Len(calls) /\ pc = "exited" /\ exitCode = 1
        /\ (pc = "exited" /\ exitCode = 0) =>
              \/ CompletedAllStages
              \/ /\ args.action = "create"
                 /\ Len(calls) = 1 /\ CallIs(1, "describe_db_clusters", "found")
              \/ /\ args.action = "destroy"
                 /\ NormalisedConfirmation # YES /\ calls = <<>>
        /\ pc = "exited" => exitCode \in {0, 1}

C11_Witness ==
    /\ args.action = "create" /\ args.update_dns = "true"
    /\ pc = "exited" /\ exitCode = 1
    /\ Len(calls) = 6
    /\ CallIs(6, "wait_db_instance_available", "err")
    /\ remote.cluster = "available" /\ remote.instance = "creating"
    /\ remote.dns = "old"

\* C12: in a confirmed destroy run delete_db_cluster is issued only after
\* delete_db_instance went through and the instance-deleted wait returned;
\* when the instance delete or its wait fails, the run ends with exit
\* code 1 and delete_db_cluster is not issued.
C12_ClusterDeleteAfterInstanceGone ==
    (Running /\ args.action = "destroy") =>
        /\ \A i \in 1..Len(calls) :
              calls[i].op = "delete_db_cluster" =>
                \E j, k \in 1..(i - 1) :
                   /\ j < k
                   /\ CallIs(j, "delete_db_instance", "ok")
                   /\ CallIs(k, "wait_db_instance_deleted", "ok")
        /\ (\E i \in 1..Len(calls) :
               \/ CallIs(i, "delete_db_instance", "error")
               \/ CallIs(i, "wait_db_instance_deleted", "err")) =>
              /\ pc = "exited" /\ exitCode = 1
              /\ ~Issued("delete_db_cluster")

C12_Witness ==
    /\ ConfirmedDestroy
    /\ pc = "exited" /\ exitCode = 1
    /\ Len(calls) = 2
    /\ CallIs(1, "delete_db_instance", "ok")
    /\ CallIs(2, "wait_db_instance_deleted", "err")
    /\ remote.instance = "deleting" /\ remote.cluster = "available"

\* the step appends a call of op to the log
Issues(op) ==
    /\ Len(calls') > Len(calls)
    /\ calls'[Len(calls')].op = op

\* C13 (as claimed): dr_restore.py upserts the DNS record only when the
\* restored cluster is available.
C13_DnsAfterClusterAvailable ==
    [][Issues("change_resource_record_sets") => remote.cluster = "available"]_vars

\* C16: a create run issues no delete_db_instance and no delete_db_cluster,
\* whatever fails; a destroy run issues no restore, create-instance or DNS
\* call, and no step taken during a destroy run changes the DNS record.
C16_NoCompensationNoCrossover ==
    /\ [](Running =>
            \A i \in 1..Len(calls) :
               IF args.action = "create"
               THEN calls[i].op \notin {"delete_db_instance", "delete_db_cluster"}
               ELSE calls[i].op \notin
                      {"restore_db_cluster_from_snapshot", "create_db_instance",
                       "change_resource_record_sets"})
    /\ [][(args.action = "destroy" /\ pc \notin {"idle", "exited"}) =>
            remote'.dns = remote.dns]_vars

C16_Witness ==
    /\ args.action = "create"
    /\ pc = "exited" /\ exitCode = 1
    /\ Len(calls) = 5
    /\ CallIs(5, "create_db_instance", "error")
    /\ remote.cluster = "available" /\ remote.instance = "absent"

\* C14: a waiter never polls more than MaxAttempts times, and every started
\* run reaches its exit.
C14_EveryRunTerminates ==
    /\ [](attempts < MaxAttempts)
    /\ (pc \notin {"idle", "exited"}) ~> (pc = "exited")

C14_Witness ==
    /\ pc = "wait_db_cluster_deleted"
    /\ attempts = MaxAttempts - 1
    /\ remote.cluster = "deleting"

RestoredAndAttached ==
    remote.cluster = "available" /\ remote.instance = "available"

\* C15 (as claimed): whenever a create run has ended with exit code 0, the
\* cluster is available and has an available instance.
C15_CreateSuccessMeansRestored ==
    (args.action = "create" /\ pc = "exited" /\ exitCode = 0) =>
        RestoredAndAttached

\* C15 (amended): whenever a create run that went through the restore (its
\* existence lookup found no cluster) has ended with exit code 0, after any
\* earlier runs, the cluster is available and has an available instance.
C15_RestoreSuccessMeansRestored ==
    (args.action = "create" /\ pc = "exited" /\ exitCode = 0
       /\ ~LookupReturned("found")) =>
        RestoredAndAttached

C15_Witness ==
    /\ args.action = "create" /\ args.update_dns = "false"
    /\ pc = "exited" /\ exitCode = 0
    /\ LookupReturned("not_found")
    /\ Len(calls) = 7
    /\ remote0.dns = "dr-endpoint"
    /\ RestoredAndAttached

\* the run that ended as number i of the history
RanAs(i, action, code) ==
    /\ Len(history) >= i
    /\ history[i].action = action /\ history[i].exitCode = code

NothingLeft == remote.cluster = "absent" /\ remote.instance = "absent"

\* C17: starting with neither cluster nor instance, after a create run
\* that exits 0 a confirmed destroy run that exits 0 leaves neither
\* cluster nor instance; a create run that follows starts from that state,
\* its existence lookup does not find a cluster, and it goes through the
\* restore stages again unless one of them fails.
C17_CreateDestroyRoundTrip ==
    /\ (RanAs(1, "create", 0) /\ Len(history) = 1
          /\ ConfirmedDestroy /\ pc = "exited" /\ exitCode = 0) =>
          NothingLeft
    /\ (RanAs(1, "create", 0) /\ RanAs(2, "destroy", 0) /\ history[2].confirmed
          /\ Len(history) = 2 /\ args.action = "create") =>
          /\ remote0.cluster = "absent" /\ remote0.instance = "absent"
          /\ ~LookupReturned("found")
          /\ (pc = "exited" /\ exitCode = 0) =>
                (CompletedAllStages /\ RestoredAndAttached)

C17_Witness ==
    /\ RanAs(1, "create", 0)
    /\ RanAs(2, "destroy", 0) /\ history[2].confirmed
    /\ Len(history) = 2 /\ args.action = "create"
    /\ pc = "exited" /\ exitCode = 0
    /\ Len(calls) = 7 /\ CallIs(3, "restore_db_cluster_from_snapshot", "ok")
    /\ RestoredAndAttached

\* the restore calls in the log of invocation p
RestoreCalls(p) ==
    {i \in 1..Len(procs[p].calls) :
       procs[p].calls[i].op = "restore_db_cluster_from_snapshot"}

\* invocation p appends a restore call to its log
IssuesRestore(p) ==
    /\ Len(procs'[p].calls) > Len(procs[p].calls)
    /\ procs'[p].calls[Len(procs'[p].calls)].op = "restore_db_cluster_from_snapshot"

\* C18 (as claimed): with two create invocations interleaved, the restore
\* call is never issued while the cluster exists and at most one restore
\* call is issued across both runs.
C18_AtMostOneRestore ==
    /\ [](Cardinality(RestoreCalls(1)) + Cardinality(RestoreCalls(2)) <= 1)
    /\ [][\A p \in Procs : IssuesRestore(p) => remote.cluster = "absent"]_vars

\* C18 (amended): an invocation issues the restore call at most once and
\* only after its own existence lookup reported no cluster; it issues it
\* while the cluster exists only if the other invocation restored the
\* cluster in the meantime.
C18_RestoreAfterOwnLookup ==
    /\ [](\A p \in Procs :
            /\ Cardinality(RestoreCalls(p)) <= 1
            /\ RestoreCalls(p) # {} =>
                  /\ procs[p].calls[1].op = "describe_db_clusters"
                  /\ procs[p].calls[1].res \in {"not_found", "empty"})
    /\ [][\A p \in Procs :
            (IssuesRestore(p) /\ remote.cluster # "absent") =>
               \E q \in Procs \ {p} : \E i \in RestoreCalls(q) :
                  procs[q].calls[i].res = "ok"]_vars

C18_Witness ==
    /\ \E i \in RestoreCalls(1) : procs[1].calls[i].res = "ok"
    /\ \E i \in RestoreCalls(2) : procs[2].calls[i].res = "error"
    /\ procs[2].pc = "exited" /\ procs[2].exitCode = 1
    /\ remote.cluster = "creating"

TypeOK ==


    /\ pc \in STRING
    /\ exitCode \in {NoExit, 0, 1}
    /\ args \in Args
    /\ remote \in [cluster : Statuses, instance : Statuses, dns : {"old", "dr-endpoint"}]
    /\ attempts \in 0..MaxAttempts

====
